---- MODULE Spec2Model ----
(***************************************************************************)
(* ActivationReader (rnnalyse/activations/activation_reader.py): the lazy  *)
(* caches of labels, ranges and the activation matrix, the activations     *)
(* setter, read_activations, __getitem__ with its three index types, and   *)
(* create_data_split.                                                      *)
(*                                                                         *)
(* Python values are tagged records, so that values of different Python    *)
(* types can be compared.  An operator that models a method takes the      *)
(* object's fields as a record `self` and returns                          *)
(*   [self |-> the fields afterwards, exc |-> the exception raised or      *)
(*    NoExc, value |-> the value returned].                                *)
(***************************************************************************)
EXTENDS Integers, Sequences, FiniteSets, TLC

VARIABLES
    labels_pickle,       \* <activations_dir>/labels.pickle: the label array
    ranges_pickle,       \* <activations_dir>/ranges.pickle: the ranges dict
    files,               \* the activation dump files of activations_dir
    activation_name,     \* self.activation_name
    _activations,        \* self._activations
    _labels,             \* self._labels
    _data_len,           \* self._data_len
    _activation_ranges,  \* self._activation_ranges
    pickle_loads,        \* how often load_pickle has read each pickle file
    call,                \* the caller: Idle, or the call that has just returned
    result               \* what that call raised or returned

vars == <<labels_pickle, ranges_pickle, files, activation_name, _activations,
          _labels, _data_len, _activation_ranges, pickle_loads, call, result>>

----------------------------------------------------------------------------
(* Bounds of the model. *)

\* the longest label array (= rows of an activation matrix)
MaxRows == 3
\* sentence keys of ranges.pickle are drawn from 0..MaxKey
MaxKey == 2
\* the most chunks (pickle dumps) in one activation file
MaxChunks == 2
\* the most rows in one chunk
MaxChunkRows == 2
\* the longest list selector
MaxList == 2

----------------------------------------------------------------------------
(* Python values. *)

NoneV == [t |-> "None"]
PyInt(i) == [t |-> "int", i |-> i]
PyStr(s) == [t |-> "str", s |-> s]
PyTuple(items) == [t |-> "tuple", items |-> items]
\* a list of ints; items is a sequence of plain integers
PyList(items) == [t |-> "list", items |-> items]
\* start, stop and step are NoneV or PyInt values
PySlice(start, stop, step) == [t |-> "slice", start |-> start, stop |-> stop, step |-> step]
\* a dict in insertion order: items is a sequence of <<key, <<lo, hi>>>>
PyDict(items) == [t |-> "dict", items |-> items]
\* an activation file: the chunks pickled into it, each [rows, cols]
PyFile(chunks) == [t |-> "file", chunks |-> chunks]
\* a numpy array: rows is the sequence of its rows, cols its second dimension
NdArray(rows, cols) == [t |-> "ndarray", rows |-> rows, cols |-> cols]

NoExc == "none"
\* the assertion errors, by their message
NotSetError == "AssertionError: self.activations should be set first"
StepError == "AssertionError: Step slicing not supported for sen key index"
SubsetError == "AssertionError: Size of subset must be positive and not bigger than the whole data set."
Raise(self, exc) == [self |-> self, exc |-> exc, value |-> NoneV]
Return(self, value) == [self |-> self, exc |-> NoExc, value |-> value]

\* the row written from row r (0-based) of the stream stored in file f
Row(f, r) == [f |-> f, r |-> r]
\* a row of np.empty that was never written: whatever the memory held
Uninit(g) == [f |-> <<"uninitialised">>, r |-> g]
Fills == {0, 1}

\* the labels of a corpus whose extraction gave n activations
LabelsOf(n) == [i \in 1..n |-> Row(<<"labels">>, i - 1)]

SeqSum(s) == LET RECURSIVE Sum(_)
                 Sum(k) == IF k = 0 THEN 0 ELSE s[k] + Sum(k - 1)
             IN Sum(Len(s))

Min(a, b) == IF a < b THEN a ELSE b
Max(a, b) == IF a > b THEN a ELSE b

----------------------------------------------------------------------------
(* The fields of the reader as one record. *)

Self == [activation_name |-> activation_name, _activations |-> _activations,
         _labels |-> _labels, _data_len |-> _data_len,
         _activation_ranges |-> _activation_ranges,
         pickle_loads |-> pickle_loads,
         labels_pickle |-> labels_pickle, ranges_pickle |-> ranges_pickle,
         files |-> files,
         read_calls |-> <<>>]

\* load_pickle(path): the content of the file, and one more read of it
load_pickle(self, path) ==
    Return([self EXCEPT !.pickle_loads[path] = @ + 1],
           IF path = "labels" THEN NdArray(self.labels_pickle, 0)
                              ELSE PyDict(self.ranges_pickle))

\* self._labels = <the pickle r has read>; return self._labels
StoreLabels(r) == Return([r.self EXCEPT !._labels = r.value], r.value)

\* labels without the cache: every access reads the pickle again
labels_uncached(self) == StoreLabels(load_pickle(self, "labels"))

\* the property labels
labels(self) ==
    IF self._labels = NoneV
    THEN StoreLabels(load_pickle(self, "labels"))
    ELSE Return(self, self._labels)

\* self._data_len = len(<the labels r has given>); return self._data_len
StoreDataLen(r) ==
    Return([r.self EXCEPT !._data_len = Len(r.value.rows)], Len(r.value.rows))

\* the property data_len
data_len(self) ==
    IF self._data_len = -1
    THEN StoreDataLen(labels(self))
    ELSE Return(self, self._data_len)

\* self._activation_ranges = <the pickle r has read>; return it
StoreRanges(r) == Return([r.self EXCEPT !._activation_ranges = r.value], r.value)

\* the property activation_ranges
activation_ranges(self) ==
    IF self._activation_ranges = NoneV
    THEN StoreRanges(load_pickle(self, "ranges"))
    ELSE Return(self, self._activation_ranges)

----------------------------------------------------------------------------
(* read_activations *)

\* f'{name}_l{l}.pickle': the name first, then the layer
Filename(name) == <<name.items[2].s, name.items[1].i>>

\* activations[n:n+i] = sen_activations for a chunk of i rows and c columns:
\* the slice is clipped to the rows of the array (j rows are left of it), and
\* numpy raises ValueError unless the chunk's shape (i, c) broadcasts to the
\* slice's shape (j, cols); a dimension broadcasts when equal or when it is 1
Broadcasts(i, c, j, cols) == (i = j \/ i = 1) /\ (c = cols \/ c = 1)

RECURSIVE ReadLoop(_, _, _, _, _, _)

\* chunk k is copied to rows n.. of acts, and the loop goes on
CopyChunk(self, f, k, acts, n, fill) ==
    LET chunk == self.files[f].chunks[k]
        rows == Len(acts.rows)
        lo == Min(n, rows)
        hi == Min(n + chunk.rows, rows)
    IN IF ~Broadcasts(chunk.rows, chunk.cols, hi - lo, acts.cols)
       THEN Raise(self, "ValueError")
       ELSE ReadLoop(self, f, k + 1,
                     [acts EXCEPT !.rows = [x \in 1..rows |->
                         IF lo < x /\ x <= hi THEN Row(f, n + (x - lo - 1)) ELSE @[x]]],
                     n + chunk.rows, fill)

\* the first chunk: hidden_size is its width, and the array is
\* np.empty((self.data_len, hidden_size)); dl is what self.data_len gave
FirstChunk(dl, f, k, n, fill) ==
    CopyChunk(dl.self, f, k,
              NdArray([x \in 1..dl.value |-> Uninit(fill)], dl.self.files[f].chunks[k].cols),
              n, fill)

\* the loop of read_activations from chunk k on; acts is NoneV while
\* hidden_size is None, n is the number of rows read so far
ReadLoop(self, f, k, acts, n, fill) ==
    IF k > Len(self.files[f].chunks) THEN Return(self, acts)    \* EOFError: break
    ELSE IF acts = NoneV THEN FirstChunk(data_len(self), f, k, n, fill)
    ELSE CopyChunk(self, f, k, acts, n, fill)

\* read_calls notes a call of read_activations and the exception it ended with
Noted(r, name) == [r EXCEPT !.self.read_calls = Append(@, [name |-> name, exc |-> r.exc])]

\* read_activations(activation_name); fill is what np.empty's memory holds
read_activations(self, name, fill) ==
    Noted(IF self.files[Filename(name)] = NoneV
          THEN Raise(self, "FileNotFoundError")
          ELSE ReadLoop(self, Filename(name), 1, NoneV, 0, fill),
          name)

\* self._activations = <what read_activations gave>, unless it raised
StoreActivations(r) ==
    IF r.exc # NoExc THEN Raise(r.self, r.exc)
    ELSE Return([r.self EXCEPT !._activations = r.value], NoneV)

\* the setter of the property activations
set_activations(self, name, fill) ==
    IF name = NoneV
    THEN Return([self EXCEPT !._activations = NoneV], NoneV)
    ELSE IF name # self.activation_name
    THEN StoreActivations(read_activations([self EXCEPT !.activation_name = name], name, fill))
    ELSE Return(self, NoneV)

----------------------------------------------------------------------------
(* Indexing a numpy array along its first axis. *)

\* a[index] for a list of ints: negative indices count from the end, an
\* index out of bounds raises IndexError.  The value is the 0-based positions.
FancyPositions(items, len) ==
    IF \E x \in 1..Len(items) : items[x] < -len \/ items[x] >= len
    THEN [exc |-> "IndexError", value |-> <<>>]
    ELSE [exc |-> NoExc,
          value |-> [x \in 1..Len(items) |->
                        IF items[x] < 0 THEN items[x] + len ELSE items[x]]]

Clamp(v, lo, hi) == Max(lo, Min(v, hi))

\* a[slice]: the positions slice.indices(len) gives; a zero step raises
SlicePositions(sl, len) ==
    LET step == IF sl.step = NoneV THEN 1 ELSE sl.step.i
        Norm(b, lo, hi) == Clamp(IF b.i < 0 THEN b.i + len ELSE b.i, lo, hi)
        start == IF step > 0
                 THEN (IF sl.start = NoneV THEN 0 ELSE Norm(sl.start, 0, len))
                 ELSE (IF sl.start = NoneV THEN len - 1 ELSE Norm(sl.start, -1, len - 1))
        stop == IF step > 0
                THEN (IF sl.stop = NoneV THEN len ELSE Norm(sl.stop, 0, len))
                ELSE (IF sl.stop = NoneV THEN -1 ELSE Norm(sl.stop, -1, len - 1))
        count == IF step > 0
                 THEN Max(0, (stop - start + step - 1) \div step)
                 ELSE Max(0, (start - stop + (-step) - 1) \div (-step))
    IN IF step = 0
       THEN [exc |-> "ValueError", value |-> <<>>]
       ELSE [exc |-> NoExc, value |-> [x \in 1..count |-> start + (x - 1) * step]]

\* a[index] for any index the model passes: list, slice, or a str
Positions(index, len) ==
    IF index.t = "list" THEN FancyPositions(index.items, len)
    ELSE IF index.t = "slice" THEN SlicePositions(index, len)
    ELSE [exc |-> "IndexError", value |-> <<>>]

\* the rows of array a at the 0-based positions pos
Gather(a, pos) == NdArray([x \in 1..Len(pos) |-> a.rows[pos[x] + 1]], a.cols)

\* the rows of a at the positions p gives, unless p raised
Gathered(a, p) ==
    [exc |-> p.exc, value |-> IF p.exc = NoExc THEN Gather(a, p.value) ELSE NoneV]

\* a[index] for an array a
ArrayIndex(a, index) == Gathered(a, Positions(index, Len(a.rows)))

----------------------------------------------------------------------------
(* __getitem__ and its helpers *)

\* arg[idx] as Python evaluates it
Subscript(arg, idx) ==
    IF arg.t = "tuple"
    THEN (IF idx < Len(arg.items) THEN [exc |-> NoExc, value |-> arg.items[idx + 1]]
                                  ELSE [exc |-> "IndexError", value |-> NoneV])
    ELSE IF arg.t = "list"
    THEN (IF idx < Len(arg.items) THEN [exc |-> NoExc, value |-> PyInt(arg.items[idx + 1])]
                                  ELSE [exc |-> "IndexError", value |-> NoneV])
    ELSE IF arg.t = "str"
    THEN (IF arg.s # "" /\ idx = 0 THEN [exc |-> NoExc, value |-> PyStr("char")]
                                   ELSE [exc |-> "IndexError", value |-> NoneV])
    ELSE [exc |-> "TypeError", value |-> NoneV]

IndexTypes == {"all", "key", "pos"}

RECURSIVE ParseArgs(_, _, _, _, _)

\* after self.activations = arg, which gave r: the loop goes on unless it raised
ParseRest(r, items, k, indextype, fill) ==
    IF r.exc # NoExc THEN Raise(r.self, r.exc)
    ELSE ParseArgs(r.self, items, k + 1, indextype, fill)

\* elif isinstance(arg[0], int) and isinstance(arg[1], str) ... else: raise;
\* a0 and a1 are what arg[0] and arg[1] give
ParseName(self, items, k, indextype, fill, a0, a1) ==
    IF a0.exc # NoExc THEN Raise(self, a0.exc)
    ELSE IF a0.value.t = "int" /\ a1.exc # NoExc THEN Raise(self, a1.exc)
    ELSE IF a0.value.t = "int" /\ a1.value.t = "str"
    THEN ParseRest(set_activations(self, items[k], fill), items, k, indextype, fill)
    ELSE Raise(self, "KeyError")

\* the loop over key[1:] of _parse_key, from element k of the tuple on
ParseArgs(self, items, k, indextype, fill) ==
    IF k > Len(items) THEN Return(self, indextype)
    ELSE IF items[k].t = "str" /\ items[k].s \in IndexTypes
    THEN ParseArgs(self, items, k + 1, items[k].s, fill)
    ELSE ParseName(self, items, k, indextype, fill,
                   Subscript(items[k], 0), Subscript(items[k], 1))

\* index = key[0] (i0 is what that gave) after the loop, which gave r; an int
\* index becomes [index]
ParsedIndex(r, i0) ==
    IF r.exc # NoExc THEN Raise(r.self, r.exc)
    ELSE IF i0.exc # NoExc THEN Raise(r.self, i0.exc)
    ELSE Return(r.self, <<IF i0.value.t = "int" THEN PyList(<<i0.value.i>>) ELSE i0.value,
                          r.value>>)

\* _parse_key: the value is <<index, indextype>>
_parse_key(self, key, fill) ==
    IF key.t = "tuple"
    THEN ParsedIndex(ParseArgs(self, key.items, 2, "pos", fill), Subscript(key, 0))
    ELSE ParsedIndex(Return(self, "pos"), [exc |-> NoExc, value |-> key])

\* the keys of a ranges dict, and dict[k]
DictKeys(d) == {d.items[x][1] : x \in 1..Len(d.items)}
DictGet(d, k) == d.items[CHOOSE x \in 1..Len(d.items) : d.items[x][1] = k][2]
SetMax(S) == CHOOSE m \in S : \A x \in S : x <= m

\* the values of a dict ordered by key instead of by insertion
RECURSIVE ValuesByKey(_, _)
ValuesByKey(d, ks) ==
    IF ks = {} THEN <<>>
    ELSE <<DictGet(d, CHOOSE x \in ks : \A y \in ks : x <= y)>>
         \o ValuesByKey(d, ks \ {CHOOSE x \in ks : \A y \in ks : x <= y})
DictValues_sorted(d) == ValuesByKey(d, DictKeys(d))

\* list(d.values()): the values in insertion order
DictValues(d) == [x \in 1..Len(d.items) |-> d.items[x][2]]

\* the items of d, in order, whose key satisfies start <= k < stop
RECURSIVE ItemsBetween(_, _, _, _)
ItemsBetween(items, k, start, stop) ==
    IF k > Len(items) THEN <<>>
    ELSE (IF start <= items[k][1] /\ items[k][1] < stop THEN <<items[k][2]>> ELSE <<>>)
         \o ItemsBetween(items, k + 1, start, stop)

\* a falsy slice bound (None or 0) takes the default
Truthy(b) == b # NoneV /\ b.i # 0

\* the ranges of the entries of d whose key is among items, in table order
ListRanges_tableorder(d, items) ==
    ItemsBetween(SelectSeq(d.items, LAMBDA e : \E x \in 1..Len(items) : items[x] = e[1]),
                 1, -1, SetMax(DictKeys(d)) + 1)

\* [self.activation_ranges[r] for r in key]
ListRanges(d, items) == [x \in 1..Len(items) |-> DictGet(d, items[x])]

\* the list of ranges for a list of keys; r is what self.activation_ranges
\* gave, and a key it lacks raises KeyError
LookupList(r, items) ==
    IF \E x \in 1..Len(items) : items[x] \notin DictKeys(r.value)
    THEN Raise(r.self, "KeyError")
    ELSE Return(r.self, ListRanges(r.value, items))

\* every step passes
StepSupported_any(key) == TRUE

\* key.step is None or key.step == 1
StepSupported(key) == key.step = NoneV \/ key.step.i = 1

\* the list of ranges for a slice of keys; r is what self.activation_ranges gave
SliceRanges(r, key) ==
    Return(r.self,
           ItemsBetween(r.value.items, 1,
                        IF Truthy(key.start) THEN key.start.i ELSE 0,
                        IF Truthy(key.stop) THEN key.stop.i
                        ELSE SetMax(DictKeys(r.value)) + 1))

\* _create_range_from_key: the value is the list of ranges
_create_range_from_key(self, key) ==
    IF key.t = "list"
    THEN (IF Len(key.items) = 0 THEN Return(self, <<>>)
          ELSE LookupList(activation_ranges(self), key.items))
    ELSE IF key.t = "slice"
    THEN (IF ~StepSupported(key) THEN Raise(self, StepError)
          ELSE SliceRanges(activation_ranges(self), key))
    ELSE Raise(self, "KeyError")

\* _create_indices_from_range: np.concatenate of range(mi, ma) for each range;
\* it raises ValueError for an empty list, and an empty range among them makes
\* the result a float array, which cannot index (IndexError at the gather)
RECURSIVE ConcatRanges(_, _)
ConcatRanges(ranges, k) ==
    IF k > Len(ranges) THEN <<>>
    ELSE [x \in 1..(ranges[k][2] - ranges[k][1]) |-> ranges[k][1] + x - 1]
         \o ConcatRanges(ranges, k + 1)

_create_indices_from_range(ranges) ==
    IF Len(ranges) = 0 THEN [exc |-> "ValueError", value |-> <<>>]
    ELSE IF \E k \in 1..Len(ranges) : ranges[k][2] <= ranges[k][1]
    THEN [exc |-> "IndexError", value |-> <<>>]
    ELSE [exc |-> NoExc, value |-> ConcatRanges(ranges, 1)]

\* what an indexing r of an array makes of a call on self
Outcome(self, r) == IF r.exc # NoExc THEN Raise(self, r.exc) ELSE Return(self, r.value)

\* np.array(list(self.activation_ranges.values()))[index]; ar is what
\* self.activation_ranges gave and p the positions the index selects
RangesAt(ar, p) ==
    IF p.exc # NoExc THEN Raise(ar.self, p.exc)
    ELSE Return(ar.self, [x \in 1..Len(p.value) |-> DictValues(ar.value)[p.value[x] + 1]])

PositionRanges(ar, index) == RangesAt(ar, Positions(index, Len(ar.value.items)))

\* return self.activations[inds]; inds is what _create_indices_from_range gave
GatherIndices(self, inds) ==
    IF inds.exc # NoExc THEN Raise(self, inds.exc)
    ELSE Outcome(self, ArrayIndex(self._activations, PyList(inds.value)))

\* the last two lines of __getitem__; rk is the call that gave the ranges
GatherRanges(rk) ==
    IF rk.exc # NoExc THEN Raise(rk.self, rk.exc)
    ELSE GatherIndices(rk.self, _create_indices_from_range(rk.value))

\* __getitem__ after _parse_key, which gave pk
Dispatch(pk) ==
    IF pk.exc # NoExc THEN Raise(pk.self, pk.exc)
    ELSE IF pk.self._activations = NoneV THEN Raise(pk.self, NotSetError)
    ELSE IF pk.value[2] = "all"
    THEN Outcome(pk.self, ArrayIndex(pk.self._activations, pk.value[1]))
    ELSE IF pk.value[2] = "key"
    THEN GatherRanges(_create_range_from_key(pk.self, pk.value[1]))
    ELSE GatherRanges(PositionRanges(activation_ranges(pk.self), pk.value[1]))

\* __getitem__
getitem(self, key, fill) == Dispatch(_parse_key(self, key, fill))

----------------------------------------------------------------------------
(* create_data_split *)

\* the split rounded up instead of truncated
Split_ceil(data_size, ratio) == (data_size * ratio[1] + ratio[2] - 1) \div ratio[2]

\* int(data_size * train_test_split) for the ratio num/den: int() truncates
Split(data_size, ratio) ==
    IF data_size * ratio[1] >= 0
    THEN (data_size * ratio[1]) \div ratio[2]
    ELSE -((-(data_size * ratio[1])) \div ratio[2])

\* the dict returned, unless one of the four indexings raised
DataDict(self, train_x, train_y, test_x, test_y) ==
    IF train_x.exc # NoExc THEN Raise(self, train_x.exc)
    ELSE IF train_y.exc # NoExc THEN Raise(self, train_y.exc)
    ELSE IF test_x.exc # NoExc THEN Raise(self, test_x.exc)
    ELSE IF test_y.exc # NoExc THEN Raise(self, test_y.exc)
    ELSE Return(self, [t |-> "DataDict",
                       train_x |-> train_x.value.rows, train_y |-> train_y.value.rows,
                       test_x |-> test_x.value.rows, test_y |-> test_y.value.rows])

\* activations[...] and self.labels[...] for both index arrays; lb is what
\* self.labels gave
GatherSplit(lb, activations, train_indices, test_indices) ==
    DataDict(lb.self,
             ArrayIndex(activations, PyList(train_indices)),
             ArrayIndex(lb.value, PyList(train_indices)),
             ArrayIndex(activations, PyList(test_indices)),
             ArrayIndex(lb.value, PyList(test_indices)))

\* indexing None (a file without chunks) raises TypeError
PartSplit(self, activations, train_indices, test_indices) ==
    IF activations = NoneV THEN Raise(self, "TypeError")
    ELSE GatherSplit(labels(self), activations, train_indices, test_indices)

\* indices[:split] and indices[split:]; ds is what gave data_size
SizedSplit(ds, activations, ratio, indices) ==
    PartSplit(ds.self, activations,
              ArrayIndex(NdArray(indices, 0),
                         PySlice(NoneV, PyInt(Split(ds.value, ratio)), NoneV)).value.rows,
              ArrayIndex(NdArray(indices, 0),
                         PySlice(PyInt(Split(ds.value, ratio)), NoneV, NoneV)).value.rows)

\* data_size = self.data_len if data_subset_size == -1 else data_subset_size;
\* ra is what read_activations gave
LoadedSplit(ra, data_subset_size, ratio, indices) ==
    IF ra.exc # NoExc THEN Raise(ra.self, ra.exc)
    ELSE SizedSplit(IF data_subset_size = -1 THEN data_len(ra.self)
                    ELSE Return(ra.self, data_subset_size),
                    ra.value, ratio, indices)

\* assert 0 < data_subset_size <= self.data_len; dl is what self.data_len gave
CheckedSplit(dl, name, data_subset_size, ratio, indices, fill) ==
    IF ~(0 < data_subset_size /\ data_subset_size <= dl.value)
    THEN Raise(dl.self, SubsetError)
    ELSE LoadedSplit(read_activations(dl.self, name, fill), data_subset_size, ratio, indices)

\* create_data_split; indices is the draw of
\* np.random.choice(range(data_size), data_size, replace=False)
create_data_split(self, name, data_subset_size, ratio, indices, fill) ==
    IF data_subset_size # -1
    THEN CheckedSplit(data_len(self), name, data_subset_size, ratio, indices, fill)
    ELSE LoadedSplit(read_activations(self, name, fill), data_subset_size, ratio, indices)

----------------------------------------------------------------------------
(* The inputs. *)

HX == PyTuple(<<PyInt(0), PyStr("hx")>>)
CX == PyTuple(<<PyInt(1), PyStr("cx")>>)
Names == {HX, CX}
\* what a caller assigns to reader.activations
NamesOrNone == {HX, CX, NoneV}
FileNames == {Filename(n) : n \in Names}

\* hidden sizes of the extracted activations
Widths == {1, 2}
HiddenSize == CHOOSE w \in Widths : \A v \in Widths : v <= w

Injective(f) == \A x, y \in DOMAIN f : x # y => f[x] # f[y]

\* the offsets of the ranges that chunks of the given sizes take, in order
RangesOf(sizes) ==
    [x \in 1..Len(sizes) |-> <<SeqSum(SubSeq(sizes, 1, x - 1)), SeqSum(SubSeq(sizes, 1, x))>>]

\* every ranges dict an extraction of n activations can leave: distinct keys
\* in extraction order, the ranges partition 0..n-1 in that order
Tables(n) ==
    UNION {
      { [x \in 1..m |-> <<ks[x], RangesOf(sizes)[x]>>] :
          ks \in {k \in [1..m -> 0..MaxKey] : Injective(k)},
          sizes \in {z \in [1..m -> 1..n] : SeqSum(z) = n} }
      : m \in 1..Min(n, MaxKey + 1) }

\* the file the extraction that left `table` wrote: one chunk per sentence
ExtractedFile(table) ==
    PyFile([x \in 1..Len(table) |->
               [rows |-> table[x][2][2] - table[x][2][1], cols |-> HiddenSize]])

Chunks == [rows : 1..MaxChunkRows, cols : Widths]
\* every activation file of at most MaxChunks chunks
Streams == UNION { {PyFile(c) : c \in [1..m -> Chunks]} : m \in 0..MaxChunks }

\* np.random.choice(range(n), n, replace=False): the permutations of 0..n-1
Choices(n) == {p \in [1..n -> 0..(n - 1)] : Injective(p)}

\* the train/test ratios, as <<numerator, denominator>>; 9/10 is the default
DefaultRatio == <<9, 10>>
Ratios == {<<0, 1>>, <<1, 2>>, DefaultRatio, <<1, 1>>}
DefaultRatios == {DefaultRatio}
\* data_subset_size: -1 for all the data, or a size, valid or not
SplitSizes == {z : z \in -1..(MaxRows + 1)}
DefaultSizes == {-1, 1}

----------------------------------------------------------------------------
(* Selectors of __getitem__. *)

Bounds == {IF i = -2 THEN NoneV ELSE PyInt(i) : i \in -2..(MaxKey + 1)}
Steps == {NoneV, PyInt(1), PyInt(2), PyInt(-1), PyInt(0)}
IntIndexes == {PyInt(i) : i \in -1..(MaxKey + 1)}
ListIndexes == {PyList(l) : l \in UNION {[1..m -> 0..MaxKey] : m \in 0..MaxList}}
SliceIndexes == {PySlice(a, b, c) : a \in Bounds, b \in Bounds, c \in Steps}
\* an index of none of the supported types
OtherIndexes == {PyStr("foo")}
Indexes == {i : i \in IntIndexes \cup ListIndexes \cup SliceIndexes \cup OtherIndexes}

\* tuple elements that are neither an indextype nor an activation name
BadArgs == {PyInt(7), PyStr("foo"), PyStr(""), NoneV, PyTuple(<<>>),
            PyTuple(<<PyInt(0)>>), PyTuple(<<PyStr("hx"), PyInt(0)>>),
            PyTuple(<<PyInt(0), PyInt(1)>>), PyList(<<0, 1>>)}
ModeArgs == {PyStr(m) : m \in IndexTypes}
Args == {a : a \in ModeArgs \cup Names \cup BadArgs}

\* [index] and [index, 'key'] for every index
PlainKeys == Indexes \cup {PyTuple(<<i, PyStr("key")>>) : i \in Indexes}
\* [slice, 'pos'] for the slices without bounds
PosKeys == {PyTuple(<<PySlice(NoneV, NoneV, c), PyStr("pos")>>) : c \in Steps}
\* [index, 'all'] for ints, lists of at most one int and the slices without step
AllKeys == {PyTuple(<<i, PyStr("all")>>) :
              i \in IntIndexes \cup OtherIndexes
                    \cup {l \in ListIndexes : Len(l.items) <= 1}
                    \cup {sl \in SliceIndexes : sl.step = NoneV}}
\* the index 0 with every tail of at most two further elements
TailKeys == {PyTuple(<<>>), PyTuple(<<PyInt(0)>>)}
            \cup {PyTuple(<<PyInt(0), a>>) : a \in Args}
            \cup {PyTuple(<<PyInt(0), a, b>>) : a \in Args, b \in Args}
Keys == {k : k \in PlainKeys \cup PosKeys \cup AllKeys \cup TailKeys}

----------------------------------------------------------------------------
\* the caller between two calls
Idle == [op |-> "idle"]
NoResult == [exc |-> NoExc, value |-> NoneV]

(* The reader after __init__, over the files of activations_dir. *)

InitReader ==
    /\ activation_name = NoneV
    /\ _activations = NoneV
    /\ _labels = NoneV
    /\ _data_len = -1
    /\ _activation_ranges = NoneV
    /\ pickle_loads = [p \in {"labels", "ranges"} |-> 0]
    /\ call = Idle
    /\ result = NoResult

\* the directory an extraction wrote: any table, and the files that go with it
InitExtracted ==
    /\ \E n \in 1..MaxRows :
         /\ labels_pickle = LabelsOf(n)
         /\ ranges_pickle \in Tables(n)
    /\ files = [f \in FileNames |-> ExtractedFile(ranges_pickle)]
    /\ InitReader

\* a directory whose activation files need not fit the labels: one file holds
\* any stream or is missing, the other is missing or the single-chunk file
InitAnyFiles ==
    /\ \E n \in 1..MaxRows :
         /\ labels_pickle = LabelsOf(n)
         /\ ranges_pickle = <<<<0, <<0, n>>>>>>
    /\ \E f \in FileNames, a \in Streams \cup {NoneV},
          b \in {NoneV, ExtractedFile(ranges_pickle)} :
         files = [g \in FileNames |-> IF g = f THEN a ELSE b]
    /\ InitReader

----------------------------------------------------------------------------
(* The operations. *)

\* the caller makes call c, which gives r: the fields after the call, the
\* call (with the fields it found and the read_activations calls it made) and
\* its outcome
Commit(r, c) ==
    /\ call = Idle
    /\ \E o \in {r} :
         /\ activation_name' = o.self.activation_name
         /\ _activations' = o.self._activations
         /\ _labels' = o.self._labels
         /\ _data_len' = o.self._data_len
         /\ _activation_ranges' = o.self._activation_ranges
         /\ pickle_loads' = o.self.pickle_loads
         /\ call' = [c EXCEPT !.read_calls = o.self.read_calls]
         /\ result' = [exc |-> o.exc, value |-> o.value]
    /\ UNCHANGED <<labels_pickle, ranges_pickle, files>>

Call(op, arg) ==
    [op |-> op, arg |-> arg, read_calls |-> <<>>,
     before |-> [activation_name |-> activation_name, _activations |-> _activations,
                 pickle_loads |-> pickle_loads]]

\* the caller takes the outcome and is ready for its next call
Resume ==
    /\ call # Idle
    /\ call' = Idle
    /\ result' = NoResult
    /\ UNCHANGED <<labels_pickle, ranges_pickle, files, activation_name, _activations,
                   _labels, _data_len, _activation_ranges, pickle_loads>>

\* reader.labels
Labels == Commit(labels(Self), Call("labels", NoneV))

\* reader.data_len
DataLen == Commit(data_len(Self), Call("data_len", NoneV))

\* reader.activations = name, for a name of `names`
SetActivations(names) ==
    /\ call = Idle
    /\ \E name \in names, fill \in Fills :
         Commit(set_activations(Self, name, fill), Call("activations", name))

\* reader.read_activations(name)
ReadActivations(names) ==
    /\ call = Idle
    /\ \E name \in names, fill \in Fills :
         Commit(read_activations(Self, name, fill), Call("read_activations", name))

\* reader[key], for a key of `keys`
GetItem(keys) ==
    /\ call = Idle
    /\ \E key \in keys, fill \in Fills :
         Commit(getitem(Self, key, fill), Call("__getitem__", key))

\* the data_size of create_data_split(name, size, ratio) on this directory
DataSize(size) == IF size = -1 THEN Len(labels_pickle) ELSE size

\* reader.create_data_split(name, size, ratio), for any draw of the indices
CreateDataSplit(names, sizes, ratios) ==
    /\ call = Idle
    /\ \E name \in names, size \in sizes, ratio \in ratios, fill \in Fills :
         \E indices \in Choices(DataSize(size)) :
            Commit(create_data_split(Self, name, size, ratio, indices, fill),
                   Call("create_data_split",
                        [name |-> name, size |-> size, ratio |-> ratio]))

----------------------------------------------------------------------------
(* Indexing a reader over the directory of an extraction. *)

NextIndex ==
    \/ SetActivations(NamesOrNone)
    \/ GetItem(Keys)
    \/ Resume

SpecIndex == InitExtracted /\ [][NextIndex]_vars

(* Splitting the activations of an extraction. *)

NextSplit ==
    \/ CreateDataSplit(Names, SplitSizes, Ratios)
    \/ Labels
    \/ Resume

SpecSplit == InitExtracted /\ [][NextSplit]_vars

(* Every operation, on a directory whose files need not fit the labels. *)

SomeKeys == {PyInt(0), PyTuple(<<PyInt(0), PyStr("key")>>),
             PyTuple(<<PySlice(NoneV, NoneV, NoneV), PyStr("all")>>),
             PyTuple(<<PyInt(0), HX>>), PyTuple(<<PyInt(0), CX>>)}

Next ==
    \/ Labels
    \/ DataLen
    \/ SetActivations(NamesOrNone)
    \/ ReadActivations(Names)
    \/ GetItem(SomeKeys)
    \/ CreateDataSplit(Names, DefaultSizes, DefaultRatios)
    \/ Resume

Spec == InitAnyFiles /\ [][Next]_vars

----------------------------------------------------------------------------
(* What the claims speak of. *)

\* the RangeTable: the dict extraction left in ranges.pickle
RangeTable == ranges_pickle
TableKeys == {RangeTable[x][1] : x \in 1..Len(RangeTable)}
RangeOfKey(k) == RangeTable[CHOOSE x \in 1..Len(RangeTable) : RangeTable[x][1] = k][2]
key_at_position(i) == RangeTable[i + 1][1]

\* the last call was reader[key], made with a matrix selected and no
\* activation name in the key
Indexed(key) ==
    /\ call.op = "__getitem__"
    /\ call.arg = key
    /\ call.before._activations # NoneV

\* rows lo..hi-1 of the cached matrix, in ascending order
MatrixRows(range) == SubSeq(_activations.rows, range[1] + 1, range[2])

\* index((k, "key")), evaluated on the reader as it is
IndexByKey(k) == getitem(Self, PyTuple(<<PyInt(k), PyStr("key")>>), 0)

RECURSIVE Concat(_)
Concat(seqs) == IF Len(seqs) = 0 THEN <<>> ELSE Head(seqs) \o Concat(Tail(seqs))

Returned(rows) == result.exc = NoExc /\ result.value.t = "ndarray" /\ result.value.rows = rows

(* C2: for every key k of the RangeTable, index((k, "key")) returns exactly  *)
(* rows lo..hi-1 of RangeTable[k] = (lo, hi), ascending; and for every list  *)
(* [k1..kn] (n >= 1) of keys of the table, in any order and with            *)
(* repetitions, index(([k1..kn], "key")) is the concatenation of            *)
(* index((k1, "key")), ..., index((kn, "key")) in the order of the list.    *)
C2_KeyIndex ==
    /\ \A k \in TableKeys :
         Indexed(PyTuple(<<PyInt(k), PyStr("key")>>)) => Returned(MatrixRows(RangeOfKey(k)))
    /\ \A l \in ListIndexes :
         /\ Len(l.items) >= 1
         /\ \A x \in 1..Len(l.items) : l.items[x] \in TableKeys
         /\ Indexed(PyTuple(<<l, PyStr("key")>>))
         => /\ \A x \in 1..Len(l.items) : IndexByKey(l.items[x]).exc = NoExc
            /\ Returned(Concat([x \in 1..Len(l.items) |-> IndexByKey(l.items[x]).value.rows]))

\* a list of two keys against the order of the table, with a key between
\* them that the table lacks, has been indexed
C2_Witness ==
    /\ Indexed(PyTuple(<<PyList(<<2, 0>>), PyStr("key")>>))
    /\ Len(RangeTable) = 2 /\ RangeTable[1][1] = 0 /\ RangeTable[2][1] = 2
    /\ result.exc = NoExc
    /\ Len(result.value.rows) = 3

(* C3: for every position i with 0 <= i < len(RangeTable), index(i) returns *)
(* the rows index((key_at_position(i), "key")) returns, key_at_position(i)  *)
(* being the i-th key in the table's insertion order.                       *)
C3_PositionIndex ==
    \A i \in 0..(Len(RangeTable) - 1) :
        Indexed(PyInt(i))
        => /\ IndexByKey(key_at_position(i)).exc = NoExc
           /\ Returned(IndexByKey(key_at_position(i)).value.rows)
           /\ Returned(MatrixRows(RangeTable[i + 1][2]))

\* position 1 has been indexed in a table whose keys are neither contiguous
\* nor in order, and differ from their positions
C3_Witness ==
    /\ Indexed(PyInt(1))
    /\ Len(RangeTable) = 2 /\ RangeTable[1][1] = 2 /\ RangeTable[2][1] = 0
    /\ result.exc = NoExc
    /\ Len(result.value.rows) >= 1

\* the elements of a set of integers in ascending order
RECURSIVE Ascending(_)
Ascending(S) ==
    IF S = {} THEN <<>>
    ELSE LET m == CHOOSE x \in S : \A y \in S : x <= y
         IN <<m>> \o Ascending(S \ {m})
Reversed(q) == [x \in 1..Len(q) |-> q[Len(q) + 1 - x]]

\* the positions of 0..m-1 a slice with a step selects, as Python defines
\* slicing: from the first position on, every step-th position before stop;
\* negative bounds count from the end
Selected(sl, m) ==
    LET step == sl.step.i
        nb(b) == IF b.i < 0 THEN b.i + m ELSE b.i
        up == LET first == IF sl.start = NoneV THEN 0 ELSE Max(nb(sl.start), 0)
              IN {q \in 0..(m - 1) : /\ q >= first
                                     /\ sl.stop = NoneV \/ q < nb(sl.stop)
                                     /\ (q - first) % step = 0}
        down == LET first == IF sl.start = NoneV THEN m - 1 ELSE Min(nb(sl.start), m - 1)
                IN {q \in 0..(m - 1) : /\ q <= first
                                       /\ sl.stop = NoneV \/ q > nb(sl.stop)
                                       /\ (first - q) % (-step) = 0}
    IN IF step > 0 THEN Ascending(up) ELSE Reversed(Ascending(down))

\* the rows of the table's entries at the given 0-based positions, in order
EntryRows(positions) ==
    Concat([x \in 1..Len(positions) |-> MatrixRows(RangeTable[positions[x] + 1][2])])

Stepped == {PySlice(a, b, c) : a \in Bounds, b \in Bounds, c \in {PyInt(2), PyInt(-1), PyInt(0)}}
UnitStep == {PySlice(a, b, c) : a \in Bounds, b \in Bounds, c \in {NoneV, PyInt(1)}}

\* the forms of a position-mode and of a key-mode selector
PosMode(i) == {i, PyTuple(<<i, PyStr("pos")>>)}
KeyMode(i) == PyTuple(<<i, PyStr("key")>>)

(* C5, as the spec states it: an index whose selector is a slice with a     *)
(* step other than 1 fails with the unsupported-step error and returns no   *)
(* rows, in key mode and in position mode.                                  *)
C5_SteppedSliceFails ==
    \A sl \in Stepped :
        (Indexed(KeyMode(sl)) \/ \E key \in PosMode(sl) : Indexed(key))
        => result.exc = StepError /\ result.value = NoneV

(* C5, amended: in key mode a slice with a step other than 1 fails with the *)
(* step assertion and returns no rows.  In position mode the step is not    *)
(* rejected: the index returns the rows of the entries the stepped slice    *)
(* selects (every step-th position from start, backwards for a negative     *)
(* step), and raises ValueError only for a zero step or when the slice      *)
(* selects no entry.                                                        *)
C5_SteppedSlice ==
    \A sl \in Stepped :
        /\ Indexed(KeyMode(sl)) => result.exc = StepError /\ result.value = NoneV
        /\ (\E key \in PosMode(sl) : Indexed(key))
           => IF sl.step.i = 0 THEN result.exc = "ValueError"
              ELSE IF Selected(sl, Len(RangeTable)) = <<>> THEN result.exc = "ValueError"
              ELSE Returned(EntryRows(Selected(sl, Len(RangeTable))))

\* reader[::2] on a table of three entries has returned the rows of the
\* first and the third entry
C5_Witness ==
    /\ Indexed(PySlice(NoneV, NoneV, PyInt(2)))
    /\ Len(RangeTable) = 3
    /\ Returned(MatrixRows(RangeTable[1][2]) \o MatrixRows(RangeTable[3][2]))

(* C7: a key-mode unit-step slice(a, b) returns the rows of exactly the      *)
(* entries whose key k satisfies a <= k < b, in table order; an absent a is *)
(* 0, an absent b is max key + 1, and a given bound is used as given, 0     *)
(* included.  (A slice that selects no entry may return no rows or raise.)  *)
C7_KeySlice ==
    \A sl \in UnitStep :
        Indexed(KeyMode(sl))
        => LET a == IF sl.start = NoneV THEN 0 ELSE sl.start.i
               b == IF sl.stop = NoneV THEN SetMax(TableKeys) + 1 ELSE sl.stop.i
               sel == Ascending({x \in 0..(Len(RangeTable) - 1) :
                                   a <= key_at_position(x) /\ key_at_position(x) < b})
           IN IF sel = <<>>
              THEN Returned(<<>>) \/ result.exc = "ValueError"
              ELSE Returned(EntryRows(sel))

(* C8: an index fails with a KeyError, returning nothing, whenever a key    *)
(* requested in key mode is absent from the RangeTable (also beside present *)
(* keys), whenever a further element of the selector is neither 'pos',      *)
(* 'key', 'all' nor a (layer, name) pair, and whenever the index of a       *)
(* key-mode selector is no int, list or slice.                              *)
C8_KeyErrors ==
    /\ \A l \in ListIndexes :
         /\ Indexed(KeyMode(l))
         /\ \E x \in 1..Len(l.items) : l.items[x] \notin TableKeys
         => result.exc = "KeyError" /\ result.value = NoneV
    /\ \A i \in IntIndexes :
         Indexed(KeyMode(i)) /\ i.i \notin TableKeys
         => result.exc = "KeyError" /\ result.value = NoneV
    /\ \A key \in TailKeys :
         /\ call.op = "__getitem__" /\ call.arg = key
         /\ \E x \in 2..Len(key.items) : key.items[x] \in BadArgs
         => result.exc = "KeyError" /\ result.value = NoneV
    /\ \A i \in OtherIndexes :
         Indexed(KeyMode(i)) => result.exc = "KeyError" /\ result.value = NoneV

\* m is a matrix that read_activations gives for the activation name
LoadedFor(m, name) ==
    /\ m # NoneV
    /\ \E g \in Fills : LET r == read_activations(Self, name, g)
                        IN r.exc = NoExc /\ r.value = m

(* C1: reader.activations = name with a name other than the recorded         *)
(* activation_name drops the cached matrix and makes one call of            *)
(* read_activations, for that name; with the recorded name it makes no call *)
(* and changes nothing; and once it has returned, the matrix that indexing  *)
(* acts on is the one loaded for name.                                      *)
C1_Select ==
    call.op = "activations" /\ call.arg \in Names
    => /\ IF call.arg # call.before.activation_name
          THEN /\ Len(call.read_calls) = 1
               /\ call.read_calls[1].name = call.arg
          ELSE /\ call.read_calls = <<>>
               /\ activation_name = call.before.activation_name
               /\ _activations = call.before._activations
       /\ result.exc = NoExc => LoadedFor(_activations, call.arg)

(* C4: for every create_data_split with a valid subset size s (s the       *)
(* number of labels when the size is -1) and a ratio r in [0, 1]: the train *)
(* and test row indices are disjoint and without repetition, together they  *)
(* are s, the train set has floor(s * r) of them, and train_y / test_y hold *)
(* the labels of the rows that train_x / test_x hold.                       *)
ValidSize(size) == size = -1 \/ (0 < size /\ size <= Len(labels_pickle))
Floor(s, ratio) == CHOOSE k \in 0..s : k * ratio[2] <= s * ratio[1] /\ s * ratio[1] < (k + 1) * ratio[2]
IndexSet(rows) == {rows[x].r : x \in 1..Len(rows)}

C4_DataSplit ==
    call.op = "create_data_split" /\ ValidSize(call.arg.size)
    => /\ result.exc = NoExc
       /\ LET d == result.value
              s == DataSize(call.arg.size)
              f == Filename(call.arg.name)
          IN /\ Len(d.train_x) + Len(d.test_x) = s
             /\ Len(d.train_x) = Floor(s, call.arg.ratio)
             /\ Len(d.train_y) = Len(d.train_x) /\ Len(d.test_y) = Len(d.test_x)
             /\ IndexSet(d.train_x) \cap IndexSet(d.test_x) = {}
             /\ Cardinality(IndexSet(d.train_x)) = Len(d.train_x)
             /\ Cardinality(IndexSet(d.test_x)) = Len(d.test_x)
             /\ IndexSet(d.train_x) \cup IndexSet(d.test_x) = 0..(s - 1)
             /\ \A x \in 1..Len(d.train_x) :
                  /\ d.train_x[x] = Row(f, d.train_y[x].r)
                  /\ d.train_y[x] = labels_pickle[d.train_y[x].r + 1]
             /\ \A x \in 1..Len(d.test_x) :
                  /\ d.test_x[x] = Row(f, d.test_y[x].r)
                  /\ d.test_y[x] = labels_pickle[d.test_y[x].r + 1]

\* a subset of 3 of more rows has been split in half: 1 train row, 2 test rows
C4_Witness ==
    /\ call.op = "create_data_split"
    /\ call.arg.size = 3 /\ call.arg.ratio = <<1, 2>>
    /\ result.exc = NoExc
    /\ Len(result.value.train_x) = 1 /\ Len(result.value.test_x) = 2
    /\ result.value.train_x[1].r # 0

(* C6: read_activations fails with the format error (numpy's ValueError)    *)
(* whenever the rows of all chunks of the file together differ from         *)
(* data_len = len(labels), fewer or more; it returns a matrix only when     *)
(* they are equal.  (Stated for a file that holds at least one chunk.)      *)
StreamRows(file) == SeqSum([x \in 1..Len(file.chunks) |-> file.chunks[x].rows])

C6_RowCount ==
    /\ call.op = "read_activations"
    /\ files[Filename(call.arg)] # NoneV
    /\ Len(files[Filename(call.arg)].chunks) >= 1
    => LET total == StreamRows(files[Filename(call.arg)])
       IN /\ total # Len(labels_pickle) => result.exc = "ValueError" /\ result.value = NoneV
          /\ result.exc = NoExc => total = Len(labels_pickle)

(* C9: over any sequence of calls, ranges.pickle is read at most once and   *)
(* labels.pickle at most once, each at the first access; later accesses     *)
(* give the cached value, and no call changes either.                       *)
C9_LoadedOnce ==
    /\ pickle_loads["labels"] <= 1 /\ pickle_loads["ranges"] <= 1
    /\ (_labels = NoneV) = (pickle_loads["labels"] = 0)
    /\ (_activation_ranges = NoneV) = (pickle_loads["ranges"] = 0)
    /\ _labels # NoneV => _labels.rows = labels_pickle
    /\ _activation_ranges # NoneV => _activation_ranges.items = ranges_pickle
    /\ _data_len # -1 => _data_len = Len(labels_pickle) /\ _labels # NoneV
    /\ call.op = "labels"
       => pickle_loads["labels"] = 1 /\ result.value.rows = labels_pickle
    /\ call.op = "data_len"
       => pickle_loads["labels"] = 1 /\ result.value = Len(labels_pickle)

\* labels has been read again after both pickles had been loaded
C9_Witness ==
    /\ call.op = "labels"
    /\ call.before.pickle_loads["labels"] = 1
    /\ call.before.pickle_loads["ranges"] = 1
    /\ result.value.rows = labels_pickle

(* C10: a select (through the setter or through a name in a selector)       *)
(* whose load fails leaves the reader as it was: activation_name and the    *)
(* cached matrix are those from before the call; so a cached matrix is      *)
(* always the one loaded for the recorded activation_name.                  *)
LoadFailed == \E x \in 1..Len(call.read_calls) : call.read_calls[x].exc # NoExc

C10_FailedSelect ==
    /\ call.op \in {"activations", "__getitem__"} /\ LoadFailed
       => /\ activation_name = call.before.activation_name
          /\ _activations = call.before._activations
    /\ _activations # NoneV
       => activation_name \in Names /\ LoadedFor(_activations, activation_name)

====
